---- MODULE Spec2Model ----
(***************************************************************************)
(* hash-sig-cli: the `generate` command of src/main.rs.                    *)
(*                                                                         *)
(* main parses the arguments, calls generate_keys (one loop iteration per  *)
(* validator: key_gen, prefix choice, file export, manifest bookkeeping)   *)
(* and, when requested, create_validator_manifest.                         *)
(*                                                                         *)
(* The signature scheme (key_gen, to_bytes, the serde JSON form) lives in  *)
(* the leansig library.  It is modelled as an environment: key_gen draws   *)
(* entropy and returns a key pair whose canonical public key has pk_len    *)
(* bytes; the JSON form holds the internal representation of every byte.   *)
(*                                                                         *)
(* Machine integers are bit patterns (the set of positions of their 1      *)
(* bits), so that the 64-bit and 32-bit shifts keep their width.           *)
(***************************************************************************)
EXTENDS Integers, Sequences, FiniteSets, TLC

\* ------------------------------------------------------------- bounds

\* Largest --num-validators explored.
MaxValidators == 2

\* Values of --log-num-active-epochs explored: the smallest, the two
\* around the 32-bit width, one past the scheme lifetime, one at the
\* 64-bit width.
LogValues == {0, 31, 32, 33, 64}

\* Values of --log-num-active-epochs explored when the command is run twice.
RerunLogValues == {0}

\* Canonical public-key lengths explored (one per scheme instantiation):
\* below the slice length, between 3 and 6, and long enough to hold a
\* byte outside both slices.
PkLens == {2, 4, 7}

\* Byte values the randomness source can give to a random byte of a key.
Entropy == {42, 171}

\* The two build profiles: overflow checks on (debug) or off (release).
Builds == {"debug", "release"}

\* ---------------------------------------------------------- constants

\* usize on the 64-bit targets the tool is built for.
UsizeBits == 64

\* An unconstrained integer literal falls back to i32.
I32Bits == 32

\* lifetime: 1u64 << 32.
LifetimeLog == 32

\* The slices taken from the public key are 3 bytes long.
SliceLen == 3

VARIABLES
    args,                 \* the parsed Commands::Generate fields
    build,                \* the build profile of the binary
    pk_len,               \* length of pk.to_bytes() for the scheme in use
    pc,                   \* "start", "loop", "generated", "exit"
    result,               \* "running", "ok", "io_error", "invalid_data", "panic"
    i,                    \* loop index of generate_keys
    activation_duration,  \* usize bit pattern
    validator_info_list,  \* Vec<ValidatorInfo>
    disk,                 \* output directory: file name -> content
    keys,                 \* history: the key pairs key_gen returned in this run
    written,              \* history: the files this run created, in order
    run,                  \* 1 for the first run on this directory, 2 for a re-run
    first_names,          \* history: the directory listing when run 1 ended
    first_result          \* history: how run 1 ended

vars == <<args, build, pk_len, pc, result, i, activation_duration,
          validator_info_list, disk, keys, written, run, first_names,
          first_result>>

\* ------------------------------------------------- machine arithmetic

\* `1 << k` at a width of `bits` overflows when k >= bits: a panic with
\* overflow checks on, a shift by k mod bits with them off.
ShlOverflows(bits, k) == k >= bits

\* The bit pattern of `1 << k` once the shift amount is masked.
ShlOne(bits, k) == {k % bits}

\* Two's complement negation of a non-zero bit pattern.
TwosNeg(bits, pattern) ==
    LET low == CHOOSE b \in pattern : \A c \in pattern : b <= c
    IN  {low} \cup {b \in (low + 1)..(bits - 1) : b \notin pattern}

\* The number an unsigned pattern stands for: sign and magnitude.
UnsignedValue(pattern) == [neg |-> FALSE, mag |-> pattern]

\* The number a signed pattern stands for, as Display prints it.
SignedValue(bits, pattern) ==
    IF (bits - 1) \in pattern
    THEN [neg |-> TRUE, mag |-> TwosNeg(bits, pattern)]
    ELSE [neg |-> FALSE, mag |-> pattern]

\* The mathematical number 2^k.
PowerOfTwo(k) == [neg |-> FALSE, mag |-> {k}]

\* `let activation_duration = 1 << log_num_active_epochs;` (usize).
ActivationDuration(k) == ShlOne(UsizeBits, k)

\* `1 << log_num_active_epochs` as a format argument (i32).
NumActiveEpochs(k) == SignedValue(I32Bits, ShlOne(I32Bits, k))

\* `1u64 << 32`.
Lifetime == UnsignedValue({LifetimeLog})

\* ------------------------------------------------------ the key scheme

\* Bytes of a key that the randomness source does not reach in this model.
FillByte(j) == (j * 17) % 256

\* The position of the second random byte: the middle of the encoding.
MidPos(len) == (len + 1) \div 2

\* pk.to_bytes() of the key drawn with entropy e1, e2.
PkBytes(len, e1, e2) ==
    [j \in 1..len |-> IF j = 1 THEN e1
                      ELSE IF j = MidPos(len) THEN e2
                      ELSE FillByte(j)]

\* sk.to_bytes(): the secret key determines the public key.
SkBytes(pk_bytes) ==
    [j \in 1..(Len(pk_bytes) + 1) |-> IF j = 1 THEN 255 ELSE pk_bytes[j - 1]]

\* key_gen: the pair for one draw of entropy.
KeyGen(len, e1, e2) ==
    [pk |-> PkBytes(len, e1, e2), sk |-> SkBytes(PkBytes(len, e1, e2))]

\* key_gen accepts 0 < activation_duration <= lifetime; outside it the
\* library may panic.
DurationValid(duration) ==
    /\ duration # {}
    /\ \A b \in duration : b <= LifetimeLog
    /\ (LifetimeLog \in duration => duration = {LifetimeLog})

KeyGenOutcomes(duration) ==
    IF DurationValid(duration) THEN {"ok"} ELSE {"ok", "panic"}

\* The internal (non-canonical) form of one byte, as serde writes it.
InternalForm(b) == (b * 3 + 1) % 256

\* serde_json::to_string_pretty(&key).
ToJson(bytes) ==
    [kind |-> "json", data |-> [j \in 1..Len(bytes) |-> InternalForm(bytes[j])]]

\* The raw bytes handed to write_all for an .ssz file.
Ssz(bytes) == [kind |-> "ssz", data |-> bytes]

\* ------------------------------------------------------------ encoding

HexChars ==
    <<"0", "1", "2", "3", "4", "5", "6", "7",
      "8", "9", "a", "b", "c", "d", "e", "f">>

HexByte(b) == HexChars[(b \div 16) + 1] \o HexChars[(b % 16) + 1]

RECURSIVE HexEncode(_)
\* hex::encode
HexEncode(bytes) ==
    IF Len(bytes) = 0 THEN ""
    ELSE HexByte(Head(bytes)) \o HexEncode(Tail(bytes))

\* ------------------------------------------------------- generate_keys

\* The length check before the slices are taken.
TooShort(pk_bytes) == Len(pk_bytes) < SliceLen

\* `key_prefix`.
KeyPrefix(new_format, idx, pk_bytes) ==
    IF new_format
    THEN "validator-" \o HexEncode(SubSeq(pk_bytes, 1, SliceLen)) \o "-"
         \o HexEncode(SubSeq(pk_bytes, Len(pk_bytes) - SliceLen + 1, Len(pk_bytes)))
    ELSE "validator_" \o ToString(idx)

\* A variant of WriteJson: the JSON files are written in every mode.
WriteJsonAlways(export_format) == TRUE

\* `write_json`.
WriteJson(export_format) == export_format = "Both"

\* The files one iteration creates and fills, in order.
ExportFiles(prefix, key, write_json) ==
    <<[name |-> prefix \o "_pk.ssz", content |-> Ssz(key.pk)],
      [name |-> prefix \o "_sk.ssz", content |-> Ssz(key.sk)]>>
    \o (IF write_json
        THEN <<[name |-> prefix \o "_pk.json", content |-> ToJson(key.pk)],
               [name |-> prefix \o "_sk.json", content |-> ToJson(key.sk)]>>
        ELSE <<>>)

\* A variant of PubkeyHex: in dual-format mode the hex is taken from the
\* bytes of the JSON form.
PubkeyHexFromJson(key, write_json) ==
    IF write_json THEN "0x" \o HexEncode(ToJson(key.pk).data)
    ELSE "0x" \o HexEncode(key.pk)

\* `pubkey_hex`.
PubkeyHex(key, write_json) == "0x" \o HexEncode(key.pk)

\* `privkey_file`.
PrivkeyFile(prefix) == prefix \o "_sk.ssz"

\* The ValidatorInfo pushed for one key.
MakeValidatorInfo(prefix, key, write_json) ==
    [pubkey_hex |-> PubkeyHex(key, write_json), privkey_file |-> PrivkeyFile(prefix)]

\* ----------------------------------------------------------- file I/O

\* How a sequence of file writes can end: all done (stage 0), File::create
\* of file `stage` failing (part -1), or write_all of file `stage` failing
\* after `part` of its items reached the disk.
IoOutcomes(files) ==
    {[stage |-> 0, part |-> 0]}
    \cup UNION {{[stage |-> s, part |-> p] :
                    p \in -1..(Len(files[s].content.data) - 1)} :
                 s \in 1..Len(files)}

\* The writes that reached the disk under an outcome.
Performed(files, outcome) ==
    IF outcome.stage = 0 THEN files
    ELSE IF outcome.part < 0 THEN SubSeq(files, 1, outcome.stage - 1)
    ELSE SubSeq(files, 1, outcome.stage - 1)
         \o <<[name |-> files[outcome.stage].name,
               content |-> [kind |-> files[outcome.stage].content.kind,
                            data |-> SubSeq(files[outcome.stage].content.data,
                                            1, outcome.part)]]>>

Names(ws) == {ws[j].name : j \in 1..Len(ws)}

\* A variant of ApplyWrites: a file that exists is left as it is.
ApplyWritesKeepOld(d, ws) ==
    [n \in (DOMAIN d) \cup Names(ws) |->
        IF n \in DOMAIN d THEN d[n]
        ELSE ws[CHOOSE j \in 1..Len(ws) : ws[j].name = n].content]

\* The directory after the writes: File::create truncates, the last write
\* to a name wins.
ApplyWrites(d, ws) ==
    [n \in (DOMAIN d) \cup Names(ws) |->
        IF n \in Names(ws)
        THEN ws[CHOOSE j \in 1..Len(ws) :
                    /\ ws[j].name = n
                    /\ \A l \in (j + 1)..Len(ws) : ws[l].name # n].content
        ELSE d[n]]

EmptyDisk == [n \in {} |-> 0]

\* -------------------------------------------- create_validator_manifest

ManifestName == "validator-keys-manifest.yaml"

\* One writeln!: the text before the colon, the value formatted into it
\* and the number of line ends it writes.
Line(key, val, nl) == [key |-> key, val |-> val, nl |-> nl]

\* Lines 214 to 223: the header.
ManifestHeader(num_validators, log_num_active_epochs) ==
    <<Line("#", "Hash-Signature Validator Keys Manifest", 1),
      Line("#", "Generated by hash-sig-cli", 2),
      Line("key_scheme", "SIGTopLevelTargetSumLifetime32Dim64Base8", 1),
      Line("hash_function", "Poseidon2", 1),
      Line("encoding", "TargetSum", 1),
      Line("lifetime", Lifetime, 1),
      Line("log_num_active_epochs", log_num_active_epochs, 1),
      Line("num_active_epochs", NumActiveEpochs(log_num_active_epochs), 1),
      Line("num_validators", num_validators, 2),
      Line("validators:", "", 1)>>

\* The position of the num_active_epochs line, whose argument may panic.
ShiftLine == 8

\* Lines 226 to 238: the block of validator_info[idx] (idx from 0).
ManifestBlock(new_format, idx, info, len) ==
    (IF new_format
     THEN <<Line("  - pubkey_hex", info.pubkey_hex, 1),
            Line("    privkey_file", info.privkey_file, 1)>>
     ELSE <<Line("  - index", idx, 1),
            Line("    pubkey_hex", info.pubkey_hex, 1),
            Line("    privkey_file", info.privkey_file, 1)>>)
    \o (IF idx < len - 1 THEN <<Line("", "", 1)>> ELSE <<>>)

RECURSIVE ManifestBlocksDropLast(_, _, _)
\* A variant of ManifestBlocks: the loop stops one record early.
ManifestBlocksDropLast(new_format, validator_info, idx) ==
    IF idx >= Len(validator_info) - 1 THEN <<>>
    ELSE ManifestBlock(new_format, idx, validator_info[idx + 1], Len(validator_info))
         \o ManifestBlocksDropLast(new_format, validator_info, idx + 1)

RECURSIVE ManifestBlocks(_, _, _)
\* The loop of lines 225 to 239, from index idx on.
ManifestBlocks(new_format, validator_info, idx) ==
    IF idx >= Len(validator_info) THEN <<>>
    ELSE ManifestBlock(new_format, idx, validator_info[idx + 1], Len(validator_info))
         \o ManifestBlocks(new_format, validator_info, idx + 1)

\* Every line of a complete manifest.
ManifestLines(num_validators, log_num_active_epochs, new_format, validator_info) ==
    ManifestHeader(num_validators, log_num_active_epochs)
    \o ManifestBlocks(new_format, validator_info, 0)

Yaml(lines) == [kind |-> "yaml", data |-> lines]

\* ------------------------------------------------------------- actions

ArgSpace ==
    [num_validators : 0..MaxValidators,
     log_num_active_epochs : LogValues,
     export_format : {"Ssz", "Both"},
     create_manifest : BOOLEAN,
     new_format : BOOLEAN]

Init ==
    /\ args \in ArgSpace
    /\ build \in Builds
    /\ pk_len \in PkLens
    /\ pc = "start"
    /\ result = "running"
    /\ i = 0
    /\ activation_duration = {}
    /\ validator_info_list = <<>>
    /\ disk = EmptyDisk
    /\ keys = <<>>
    /\ written = <<>>
    /\ run = 1
    /\ first_names = {}
    /\ first_result = "none"

\* The run ends: Err(..) returned from main, a panic, or Ok(()).
Exit(how) ==
    /\ pc' = "exit"
    /\ result' = how

\* generate_keys up to the loop: create_dir_all, then the shift.
Start ==
    /\ pc = "start"
    /\ \E dir_ok \in BOOLEAN :
        IF ~dir_ok
        THEN Exit("io_error") /\ UNCHANGED activation_duration
        ELSE IF ShlOverflows(UsizeBits, args.log_num_active_epochs) /\ build = "debug"
        THEN Exit("panic") /\ UNCHANGED activation_duration
        ELSE /\ activation_duration' = ActivationDuration(args.log_num_active_epochs)
             /\ pc' = "loop"
             /\ UNCHANGED result
    /\ UNCHANGED <<args, build, pk_len, i, validator_info_list, disk, keys,
                   written, run, first_names, first_result>>

\* A variant of ExportKey: a failed write is not propagated, the loop goes
\* on with the next index.
ExportKeyIgnoringErrors(key, outcome) ==
    LET write_json == WriteJson(args.export_format)
        prefix == KeyPrefix(args.new_format, i, key.pk)
        files == ExportFiles(prefix, key, write_json)
        done == Performed(files, outcome)
    IN  /\ disk' = ApplyWrites(disk, done)
        /\ written' = written \o [j \in 1..Len(done) |-> [key |-> i, name |-> done[j].name]]
        /\ validator_info_list' =
               IF outcome.stage = 0
               THEN Append(validator_info_list, MakeValidatorInfo(prefix, key, write_json))
               ELSE validator_info_list
        /\ i' = i + 1
        /\ UNCHANGED <<pc, result>>

\* What one loop iteration does with the key key_gen returned, for one
\* way the file writes can end.
ExportKey(key, outcome) ==
    LET write_json == WriteJson(args.export_format)
        prefix == KeyPrefix(args.new_format, i, key.pk)
        files == ExportFiles(prefix, key, write_json)
        done == Performed(files, outcome)
    IN  /\ disk' = ApplyWrites(disk, done)
        /\ written' = written \o [j \in 1..Len(done) |-> [key |-> i, name |-> done[j].name]]
        /\ IF outcome.stage = 0
           THEN /\ validator_info_list' =
                       Append(validator_info_list, MakeValidatorInfo(prefix, key, write_json))
                /\ i' = i + 1
                /\ UNCHANGED <<pc, result>>
           ELSE /\ Exit("io_error")
                /\ UNCHANGED <<validator_info_list, i>>

\* One iteration of `for i in 0..num_validators`.
GenerateKey ==
    /\ pc = "loop"
    /\ i < args.num_validators
    /\ \E e1 \in Entropy, e2 \in Entropy, kg \in KeyGenOutcomes(activation_duration) :
        LET key == KeyGen(pk_len, e1, e2)
        IN  IF kg = "panic"
            THEN /\ Exit("panic")
                 /\ UNCHANGED <<i, validator_info_list, disk, keys, written>>
            ELSE /\ keys' = Append(keys, key)
                 /\ IF args.new_format /\ TooShort(key.pk)
                    THEN /\ Exit("invalid_data")
                         /\ UNCHANGED <<i, validator_info_list, disk, written>>
                    ELSE \E outcome \in IoOutcomes(
                                ExportFiles(KeyPrefix(args.new_format, i, key.pk), key,
                                            WriteJson(args.export_format))) :
                            ExportKey(key, outcome)
    /\ UNCHANGED <<args, build, pk_len, activation_duration, run, first_names,
                   first_result>>

\* The loop is over: generate_keys returns Ok(validator_info_list).
ReturnKeys ==
    /\ pc = "loop"
    /\ i >= args.num_validators
    /\ pc' = "generated"
    /\ UNCHANGED <<args, build, pk_len, result, i, activation_duration,
                   validator_info_list, disk, keys, written, run, first_names,
                   first_result>>

\* main with create_manifest set: create_validator_manifest writes the
\* file line by line; the shift in the num_active_epochs line may panic
\* and any write may fail.
CreateManifest ==
    /\ pc = "generated"
    /\ args.create_manifest
    /\ LET lines == ManifestLines(args.num_validators, args.log_num_active_epochs,
                                  args.new_format, validator_info_list)
           panics == ShlOverflows(I32Bits, args.log_num_active_epochs) /\ build = "debug"
           last == IF panics THEN ShiftLine - 1 ELSE Len(lines)
       IN  \E failed \in -1..last :
            \* -1: File::create fails; 1..last: that writeln! fails; 0: none does
            IF failed = -1
            THEN Exit("io_error") /\ UNCHANGED <<disk, written>>
            ELSE /\ written' = Append(written, [key |-> -1, name |-> ManifestName])
                 /\ IF failed > 0
                    THEN /\ disk' = ApplyWrites(disk,
                                <<[name |-> ManifestName,
                                   content |-> Yaml(SubSeq(lines, 1, failed - 1))]>>)
                         /\ Exit("io_error")
                    ELSE /\ disk' = ApplyWrites(disk,
                                <<[name |-> ManifestName,
                                   content |-> Yaml(SubSeq(lines, 1, last))]>>)
                         /\ Exit(IF panics THEN "panic" ELSE "ok")
    /\ UNCHANGED <<args, build, pk_len, i, activation_duration,
                   validator_info_list, keys, run, first_names, first_result>>

\* main with create_manifest unset.
SkipManifest ==
    /\ pc = "generated"
    /\ ~args.create_manifest
    /\ Exit("ok")
    /\ UNCHANGED <<args, build, pk_len, i, activation_duration,
                   validator_info_list, disk, keys, written, run, first_names,
                   first_result>>

\* The operator runs the same command again, with the same arguments, on
\* the directory a completed run left.
Rerun ==
    /\ pc = "exit"
    /\ result = "ok"
    /\ run = 1
    /\ run' = 2
    /\ first_names' = DOMAIN disk
    /\ first_result' = result
    /\ pc' = "start"
    /\ result' = "running"
    /\ i' = 0
    /\ activation_duration' = {}
    /\ validator_info_list' = <<>>
    /\ keys' = <<>>
    /\ written' = <<>>
    /\ UNCHANGED <<args, build, pk_len, disk>>

Next ==
    \/ Start
    \/ GenerateKey
    \/ ReturnKeys
    \/ CreateManifest
    \/ SkipManifest

\* One run of the command on an empty directory.
Spec == Init /\ [][Next]_vars

NextRerun ==
    \/ Next
    \/ Rerun

\* File names do not depend on the epoch parameters: the re-run is
\* explored for the values of RerunLogValues only.
InitRerun ==
    /\ Init
    /\ args.log_num_active_epochs \in RerunLogValues

\* A run, and then the same command once more on the same directory.
SpecRerun == InitRerun /\ [][NextRerun]_vars

\* ------------------------------------------------ reading the outputs

\* The manifest lines that open a validator block.
ItemStarts(lines) ==
    {j \in 1..Len(lines) : lines[j].key \in {"  - index", "  - pubkey_hex"}}

NumBlocks(lines) == Cardinality(ItemStarts(lines))

\* The line on which block k (from 0) starts, and the line after its end.
BlockStart(lines, k) ==
    CHOOSE j \in ItemStarts(lines) :
        Cardinality({l \in ItemStarts(lines) : l < j}) = k

BlockEnd(lines, k) ==
    IF k + 1 < NumBlocks(lines) THEN BlockStart(lines, k + 1) ELSE Len(lines) + 1

\* The lines of block k that carry `field`.
FieldLines(lines, k, field) ==
    {j \in BlockStart(lines, k)..(BlockEnd(lines, k) - 1) :
        lines[j].key \in {"  - " \o field, "    " \o field}}

HasField(lines, k, field) == FieldLines(lines, k, field) # {}

BlockField(lines, k, field) ==
    lines[CHOOSE j \in FieldLines(lines, k, field) : TRUE].val

HeaderField(lines, key) ==
    lines[CHOOSE j \in 1..Len(lines) : lines[j].key = key].val

Succeeded == pc = "exit" /\ result = "ok"

ManifestWritten == \E j \in 1..Len(written) : written[j].name = ManifestName

\* The names this run created for key k (from 0), and how many creations.
NamesOfKey(k) == {written[j].name : j \in {l \in 1..Len(written) : written[l].key = k}}

WritesOfKey(k) == Cardinality({l \in 1..Len(written) : written[l].key = k})

\* The prefix generation index k (from 0) was exported under.
PrefixOf(k) ==
    IF args.new_format
    THEN "validator-" \o HexEncode(SubSeq(keys[k + 1].pk, 1, 3)) \o "-"
         \o HexEncode(SubSeq(keys[k + 1].pk, Len(keys[k + 1].pk) - 2, Len(keys[k + 1].pk)))
    ELSE "validator_" \o ToString(k)

\* -------------------------------------------------------------- claims

\* C1: when a run succeeds with manifest creation enabled, the manifest
\* holds exactly num_validators blocks, its header field num_validators is
\* that number, and block k carries the pubkey_hex and privkey_file of the
\* k-th key the loop generated, in generation order.
C1_ManifestListsKeysInOrder ==
    (Succeeded /\ args.create_manifest) =>
        /\ ManifestName \in DOMAIN disk
        /\ LET lines == disk[ManifestName].data
           IN  /\ NumBlocks(lines) = args.num_validators
               /\ HeaderField(lines, "num_validators") = args.num_validators
               /\ Len(keys) = args.num_validators
               /\ \A k \in 0..(args.num_validators - 1) :
                    /\ BlockField(lines, k, "pubkey_hex") = "0x" \o HexEncode(keys[k + 1].pk)
                    /\ BlockField(lines, k, "privkey_file") = PrefixOf(k) \o "_sk.ssz"

C1_Witness ==
    /\ Succeeded
    /\ args.create_manifest
    /\ args.num_validators = 2
    /\ keys[1] # keys[2]
    /\ NumBlocks(disk[ManifestName].data) = 2

\* C2: a successful run into an empty directory that generated pairwise
\* different keys leaves exactly num_validators canonical public-key files
\* and as many canonical secret-key files, under both naming policies.
C2_DistinctKeysDistinctFiles ==
    (/\ Succeeded
     /\ \A k, l \in 1..Len(keys) : k # l => keys[k] # keys[l])
    => Cardinality({n \in DOMAIN disk : disk[n].kind = "ssz"}) = 2 * args.num_validators

\* A key of this run failed: key_gen panicked, the length check refused
\* the key, or one of its files could not be written.
KeyFailed ==
    /\ pc = "exit"
    /\ result # "ok"
    /\ activation_duration # {}
    /\ i < args.num_validators
    /\ Len(validator_info_list) < args.num_validators

\* C3: the manifest is created only after every one of the num_validators
\* keys was exported in full; a run in which a key fails stops there: no
\* later key is generated and the manifest is not created.
C3_ManifestOnlyAfterAllKeys ==
    /\ ManifestWritten =>
         /\ Len(validator_info_list) = args.num_validators
         /\ \A k \in 0..(args.num_validators - 1) :
              {PrefixOf(k) \o "_pk.ssz", PrefixOf(k) \o "_sk.ssz"} \subseteq NamesOfKey(k)
    /\ KeyFailed =>
         /\ ~ManifestWritten
         /\ Len(validator_info_list) = i
         /\ Len(keys) <= i + 1
         /\ \A j \in 1..Len(written) : written[j].key <= i

C3_Witness ==
    /\ KeyFailed
    /\ args.create_manifest
    /\ args.num_validators = 2
    /\ i = 1
    /\ result = "io_error"
    /\ WritesOfKey(0) >= 2
    /\ WritesOfKey(1) = 1

\* The key recorded last is the key generated last, and its _pk.ssz file
\* holds its canonical bytes.
LastKeyOnDisk ==
    LET k == Len(validator_info_list)
    IN  /\ Len(keys) = k
        /\ PrefixOf(k - 1) \o "_pk.ssz" \in DOMAIN disk
        /\ disk[PrefixOf(k - 1) \o "_pk.ssz"].kind = "ssz"
        /\ disk[PrefixOf(k - 1) \o "_pk.ssz"].data = keys[k].pk

\* C4: the pubkey_hex of every record is "0x" followed by the lowercase hex
\* of the canonical bytes of the public key key_gen returned, whatever the
\* export format and the naming policy, and the step that records a key
\* leaves exactly those bytes in the key's _pk.ssz file.
C4_PubkeyHexIsCanonical ==
    /\ [](\A k \in 1..Len(validator_info_list) :
            validator_info_list[k].pubkey_hex = "0x" \o HexEncode(keys[k].pk))
    /\ [][Len(validator_info_list') = Len(validator_info_list) + 1
            => LastKeyOnDisk']_vars

C4_Witness ==
    /\ Succeeded
    /\ args.export_format = "Both"
    /\ args.new_format
    /\ Len(validator_info_list) = 2
    /\ validator_info_list[2].pubkey_hex = "0x" \o HexEncode(keys[2].pk)
    /\ disk[PrefixOf(1) \o "_pk.json"].data # keys[2].pk

\* C5: for 0 <= log_num_active_epochs = k <= 32 the num_active_epochs
\* written to the manifest is exactly 2^k and equals the
\* activation_duration handed to key_gen in the same run.
C5_NumActiveEpochsIsPowerOfTwo ==
    (/\ Succeeded
     /\ args.create_manifest
     /\ args.log_num_active_epochs <= LifetimeLog)
    => /\ HeaderField(disk[ManifestName].data, "num_active_epochs")
            = PowerOfTwo(args.log_num_active_epochs)
       /\ HeaderField(disk[ManifestName].data, "num_active_epochs")
            = UnsignedValue(activation_duration)

\* C6: under new_format a key whose canonical public key has fewer than 6
\* bytes is refused with a validation error before any file of that key is
\* created, and no record is appended for it.
C6_ShortKeyRefusedBelowSix ==
    \A k \in 1..Len(keys) :
        (args.new_format /\ Len(keys[k].pk) < 2 * SliceLen)
        => /\ WritesOfKey(k - 1) = 0
           /\ Len(validator_info_list) < k
           /\ result = "invalid_data"

\* C7: a run with log_num_active_epochs > 32 (an activation duration past
\* the lifetime of 2^32) never ends successfully and never creates the
\* manifest.
C7_OverlongDurationRejected ==
    args.log_num_active_epochs > LifetimeLog
    => /\ ~Succeeded
       /\ ~ManifestWritten

\* C8: the files created for an exported key with prefix p are exactly
\* p_pk.ssz and p_sk.ssz in Ssz mode and these plus p_pk.json and p_sk.json
\* in Both mode, each created once; a successful run creates nothing else
\* but one manifest when manifest creation is enabled.
C8_FilesFollowExportFormat ==
    /\ \A k \in 0..(Len(validator_info_list) - 1) :
         /\ NamesOfKey(k) =
              {PrefixOf(k) \o "_pk.ssz", PrefixOf(k) \o "_sk.ssz"}
              \cup (IF args.export_format = "Both"
                    THEN {PrefixOf(k) \o "_pk.json", PrefixOf(k) \o "_sk.json"}
                    ELSE {})
         /\ WritesOfKey(k) = (IF args.export_format = "Both" THEN 4 ELSE 2)
    /\ Succeeded =>
         Len(written) = args.num_validators * (IF args.export_format = "Both" THEN 4 ELSE 2)
                        + (IF args.create_manifest THEN 1 ELSE 0)

C8_Witness ==
    /\ Succeeded
    /\ args.num_validators = 1
    /\ args.export_format = "Both"
    /\ args.create_manifest
    /\ Len(written) = 5
    /\ Cardinality(DOMAIN disk) = 5

\* The key files a successful run holds under index naming: those of the
\* keys of this run.
SequentialFilesAreThisRuns ==
    \A k \in 0..(args.num_validators - 1) :
        /\ disk["validator_" \o ToString(k) \o "_pk.ssz"].data = keys[k + 1].pk
        /\ disk["validator_" \o ToString(k) \o "_sk.ssz"].data = keys[k + 1].sk

\* C9 as stated: after a successful re-run with the same arguments the
\* directory holds the same set of file names as after the first run,
\* under either naming policy.
C9_RerunKeepsFileNames ==
    (run = 2 /\ Succeeded) => DOMAIN disk = first_names

\* C9 amended: a successful re-run removes no file; without new_format the
\* set of file names is that of the first run and the key files hold the
\* keys of the second run; with new_format the names are those of the first
\* run and those derived from the keys of the second run.
C9_RerunOverwritesByName ==
    (run = 2 /\ Succeeded) =>
        /\ first_names \subseteq DOMAIN disk
        /\ DOMAIN disk = first_names \cup {written[j].name : j \in 1..Len(written)}
        /\ ~args.new_format => (DOMAIN disk = first_names /\ SequentialFilesAreThisRuns)
        /\ args.new_format =>
             \A k \in 0..(args.num_validators - 1) :
                {PrefixOf(k) \o "_pk.ssz", PrefixOf(k) \o "_sk.ssz"} \subseteq DOMAIN disk

C9_Witness ==
    /\ run = 2
    /\ Succeeded
    /\ ~args.new_format
    /\ args.num_validators = 2
    /\ args.export_format = "Both"
    /\ args.create_manifest
    /\ DOMAIN disk = first_names
    /\ Cardinality(first_names) = 9
    /\ SequentialFilesAreThisRuns

\* C10: at the end of a successful run every manifest block names, as
\* privkey_file, the _sk.ssz file under the prefix of its key, that file
\* exists and holds the canonical secret key of the pair whose public key
\* is the block's pubkey_hex; the index field is present only without
\* new_format and is the generation index.
C10_ManifestMatchesDisk ==
    (Succeeded /\ args.create_manifest) =>
        LET lines == disk[ManifestName].data
        IN  \A k \in 0..(NumBlocks(lines) - 1) :
              /\ BlockField(lines, k, "pubkey_hex") = "0x" \o HexEncode(keys[k + 1].pk)
              /\ BlockField(lines, k, "privkey_file") = PrefixOf(k) \o "_sk.ssz"
              /\ BlockField(lines, k, "privkey_file") \in DOMAIN disk
              /\ disk[BlockField(lines, k, "privkey_file")].data = keys[k + 1].sk
              /\ HasField(lines, k, "index") = ~args.new_format
              /\ (HasField(lines, k, "index") => BlockField(lines, k, "index") = k)

====
